---- MODULE Spec2Model ----
(***************************************************************************)
(* Model of the m3u8 rewriting proxy (routes/fetch.ts): the signed-URL     *)
(* token codec, the TTL resource store (node-cache) and the three          *)
(* endpoints GET /fetch/, GET /fetch/segment/resource and GET /fetch/image.*)
(*                                                                         *)
(* Strings are sequences of tokens: single characters wherever the code   *)
(* looks at characters (white space, '#', digits, signs, the characters of *)
(* a resourceId and of exp), and whole words elsewhere (a host name, a     *)
(* file name, the fixed parts of the local URL), so that split, trim,      *)
(* startsWith, parseInt and template concatenation are computed as the     *)
(* code computes them.                                                     *)
(* The clock is Date.now() in milliseconds.                                *)
(***************************************************************************)
EXTENDS Integers, Sequences, FiniteSets, TLC

(* ---------------------------------------------------------------------- *)
(* Bounds of the model                                                     *)
(* ---------------------------------------------------------------------- *)
MaxSmallTicks == 2
MaxBigTicks == 1
MaxRequests == 2

(* Clock steps in milliseconds: half a second, and the length of the      *)
(* token window and of the store's TTL.                                   *)
SmallStep == {500}
BigStep == {600000}
StartTimes == {1000000}

(* ---------------------------------------------------------------------- *)
(* String helpers (ECMAScript String.prototype / template literals)        *)
(* ---------------------------------------------------------------------- *)
Digits == <<"0", "1", "2", "3", "4", "5", "6", "7", "8", "9">>

IsDigit(c) == \E i \in 1..10 : Digits[i] = c

DigitVal(c) == (CHOOSE i \in 1..10 : Digits[i] = c) - 1

WhiteSpace == {" ", "\t", "\r", "\n"}

RECURSIVE DecStr(_)
DecStr(n) ==
  IF n < 0 THEN <<"-">> \o DecStr(0 - n)
  ELSE IF n < 10 THEN <<Digits[n + 1]>>
  ELSE DecStr(n \div 10) \o <<Digits[(n % 10) + 1]>>

StartsWithTrimmed(s, p) ==
  LET t == IF s # <<>> /\ Head(s) = " " THEN Tail(s) ELSE s
  IN  Len(t) >= Len(p) /\ SubSeq(t, 1, Len(p)) = p

StartsWith(s, p) ==
  /\ Len(s) >= Len(p)
  /\ SubSeq(s, 1, Len(p)) = p

RECURSIVE TrimStart(_)
TrimStart(s) ==
  IF s # <<>> /\ Head(s) \in WhiteSpace THEN TrimStart(Tail(s)) ELSE s

RECURSIVE TrimEnd(_)
TrimEnd(s) ==
  IF s # <<>> /\ s[Len(s)] \in WhiteSpace
  THEN TrimEnd(SubSeq(s, 1, Len(s) - 1))
  ELSE s

Trim(s) == TrimEnd(TrimStart(s))

RECURSIVE Split(_, _)
Split(s, sep) ==
  IF \E i \in 1..Len(s) : s[i] = sep
  THEN LET i == CHOOSE j \in 1..Len(s) :
                  s[j] = sep /\ \A k \in 1..(j - 1) : s[k] # sep
       IN  <<SubSeq(s, 1, i - 1)>> \o Split(SubSeq(s, i + 1, Len(s)), sep)
  ELSE <<s>>

RECURSIVE Join(_, _)
Join(parts, sep) ==
  IF parts = <<>> THEN <<>>
  ELSE IF Len(parts) = 1 THEN parts[1]
  ELSE parts[1] \o <<sep>> \o Join(Tail(parts), sep)

(* parseInt(s, 10): skip leading white space, an optional sign, then the  *)
(* longest run of decimal digits; NaN when that run is empty.             *)
RECURSIVE DigitRun(_)
DigitRun(s) ==
  IF s # <<>> /\ IsDigit(Head(s)) THEN <<Head(s)>> \o DigitRun(Tail(s))
  ELSE <<>>

RECURSIVE DigitsValue(_)
DigitsValue(ds) ==
  IF ds = <<>> THEN 0
  ELSE 10 * DigitsValue(SubSeq(ds, 1, Len(ds) - 1)) + DigitVal(ds[Len(ds)])

ParseInt(s) ==
  LET t    == TrimStart(s)
      neg  == t # <<>> /\ Head(t) = "-"
      body == IF t # <<>> /\ Head(t) \in {"-", "+"} THEN Tail(t) ELSE t
      run  == DigitRun(body)
  IN  IF run = <<>> THEN [nan |-> TRUE, val |-> 0]
      ELSE [nan |-> FALSE,
            val |-> IF neg THEN 0 - DigitsValue(run) ELSE DigitsValue(run)]

(* The relational operator < of ECMAScript: false when an operand is NaN. *)
NumLess(a, n) == ~a.nan /\ a.val < n

(* ---------------------------------------------------------------------- *)
(* Token codec                                                             *)
(* ---------------------------------------------------------------------- *)
DefaultSecret == <<"update-this-secret">>

(* process.env.SECRET_KEY || 'update-this-secret': an absent or empty     *)
(* variable (modelled as <<>>) falls back to the built-in key.            *)
SECRET_KEY(environment) ==
  IF environment.SECRET_KEY # <<>> THEN environment.SECRET_KEY
  ELSE DefaultSecret

(* crypto.createHmac('sha256', key).update(msg).digest('hex'), taken as   *)
(* an ideal keyed hash: a digest is determined by, and determines, the    *)
(* pair (key, msg).                                                       *)
Hmac(key, msg) == <<"hmac-sha256(">> \o key \o <<",">> \o msg \o <<")">>

TokenWindow == 600

LocalPrefix == "/fetch/segment/resource?resourceId="
SigSep == "&sig="
ExpSep == "&exp="
SegmentType == <<"segment">>

(* Variant: a window one second shorter than the store TTL.               *)
ExpOfShortWindow(nowMs) == (nowMs \div 1000) + TokenWindow - 1

ExpOf(nowMs) == (nowMs \div 1000) + TokenWindow

Signature(resourceId, exp, type, key) ==
  Hmac(key, resourceId \o exp \o type)

generateSignedUrl(resourceId, type, nowMs, key) ==
  LET exp       == ExpOf(nowMs)
      signature == Signature(resourceId, DecStr(exp), type, key)
  IN  <<LocalPrefix>> \o resourceId \o <<SigSep>> \o signature
        \o <<ExpSep>> \o DecStr(exp)

(* Variants of verifySignedUrl with one plausible slip each.              *)
verifySignedUrlRejectsAtExp(resourceId, sig, exp, type, nowMs, key) ==
  LET now == nowMs \div 1000
  IN  IF NumLess(ParseInt(exp), now + 1) THEN FALSE
      ELSE sig = Signature(resourceId, exp, type, key)

verifySignedUrlNoExpiry(resourceId, sig, exp, type, nowMs, key) ==
  sig = Signature(resourceId, exp, type, key)

verifySignedUrlAnySig(resourceId, sig, exp, type, nowMs, key) ==
  LET now == nowMs \div 1000
  IN  ~NumLess(ParseInt(exp), now)

verifySignedUrl(resourceId, sig, exp, type, nowMs, key) ==
  LET now == nowMs \div 1000
  IN  IF NumLess(ParseInt(exp), now) THEN FALSE
      ELSE sig = Signature(resourceId, exp, type, key)

(* req.query of a request for a signed local URL: the three parameters    *)
(* as the query-string parser splits them at "&sig=" and "&exp=".         *)
IndexOf(s, c) ==
  IF \E i \in 1..Len(s) : s[i] = c
  THEN CHOOSE i \in 1..Len(s) : s[i] = c /\ \A k \in 1..(i - 1) : s[k] # c
  ELSE 0

IsSignedUrl(u) ==
  /\ u # <<>>
  /\ Head(u) = LocalPrefix
  /\ IndexOf(u, SigSep) > 0
  /\ IndexOf(u, ExpSep) > IndexOf(u, SigSep)

QueryOf(u) ==
  LET i == IndexOf(u, SigSep)
      j == IndexOf(u, ExpSep)
  IN  [resourceId |-> SubSeq(u, 2, i - 1),
       sig        |-> SubSeq(u, i + 1, j - 1),
       exp        |-> SubSeq(u, j + 1, Len(u))]

(* ---------------------------------------------------------------------- *)
(* Resource store: new NodeCache({ stdTTL: 600 })                          *)
(* ---------------------------------------------------------------------- *)
stdTTL == 600

Undefined == <<>>

CacheSet(c, k, v, nowMs) ==
  [x \in (DOMAIN c) \cup {k} |->
     IF x = k THEN [v |-> v, t |-> nowMs + stdTTL * 1000] ELSE c[x]]

(* node-cache _check: an entry whose expiry stamp lies before Date.now()  *)
(* is expired; with deleteOnExpire it is deleted when it is looked up.    *)
(* The periodic check of node-cache deletes the same entries and nothing  *)
(* else; the program reads the store only through get, so it is left out. *)
CacheNeverExpired(c, k, nowMs) == FALSE

CacheExpired(c, k, nowMs) == k \in DOMAIN c /\ c[k].t < nowMs

CacheGet(c, k, nowMs) ==
  IF k \in DOMAIN c /\ ~CacheExpired(c, k, nowMs) THEN c[k].v ELSE Undefined

CacheAfterGetDeletes(c, k, nowMs) == [x \in (DOMAIN c) \ {k} |-> c[x]]

(* Variant: a lookup restarts the TTL of the entry it finds.               *)
CacheAfterGetTouches(c, k, nowMs) ==
  IF CacheExpired(c, k, nowMs) THEN [x \in (DOMAIN c) \ {k} |-> c[x]]
  ELSE IF k \in DOMAIN c THEN [c EXCEPT ![k].t = nowMs + stdTTL * 1000]
  ELSE c

CacheAfterGet(c, k, nowMs) ==
  IF CacheExpired(c, k, nowMs)
  THEN [x \in (DOMAIN c) \ {k} |-> c[x]]
  ELSE c

(* ---------------------------------------------------------------------- *)
(* new URL(reference, base).href                                           *)
(* ---------------------------------------------------------------------- *)
Schemes == {"http:", "https:"}

InvalidUrl == <<"TypeError: Invalid URL">>

IsAbsoluteUrl(u) ==
  /\ Len(u) >= 3
  /\ u[1] \in Schemes
  /\ u[2] = "//"
  /\ u[3] \notin {"/", "//", "?", "#"} \cup WhiteSpace

LastSlash(u) == CHOOSE i \in 1..Len(u) : u[i] = "/" /\ \A k \in (i + 1)..Len(u) : u[k] # "/"

ResolveUrl(reference, base) ==
  IF reference # <<>> /\ Head(reference) \in Schemes
  THEN IF ~IsAbsoluteUrl(reference) THEN InvalidUrl
       ELSE IF Len(reference) = 3 THEN reference \o <<"/">>
       ELSE reference
  ELSE IF ~IsAbsoluteUrl(base) THEN InvalidUrl
  ELSE IF reference # <<>> /\ Head(reference) = "/"
       THEN SubSeq(base, 1, 3) \o reference
  ELSE IF \E i \in 4..Len(base) : base[i] = "/"
       THEN SubSeq(base, 1, LastSlash(base)) \o reference
  ELSE SubSeq(base, 1, 3) \o <<"/">> \o reference

(* ---------------------------------------------------------------------- *)
(* Inputs: what clients ask for and what upstream answers                  *)
(* ---------------------------------------------------------------------- *)
ManifestUrl == <<"http:", "//", "origin.example", "/", "path", "/", "index.m3u8">>
ImageUrl == <<"http:", "//", "cdn.example", "/", "cover.png">>
RefererValue == <<"http:", "//", "site.example", "/">>

(* Queries of GET /fetch/ and GET /fetch/image: url absent, url with a    *)
(* ref, url without one.                                                  *)
ManifestQueries ==
  {[url |-> <<>>, ref |-> <<>>], [url |-> ManifestUrl, ref |-> RefererValue]}

ImageQueries == {[url |-> <<>>, ref |-> <<>>], [url |-> ImageUrl, ref |-> <<>>]}

EXTM3U == <<"#", "EXTM3U">>

(* The playlist of the end-to-end scenario (one relative and one absolute *)
(* reference, a final line terminator), with CRLF after the header, a     *)
(* white-space-only line, an indented tag and an indented reference.      *)
BodyTwoRefs ==
  <<"#", "EXTM3U", "\r", "\n", " ", "\t", "\n", " ", "#", "EXTINF:10,", "\n",
    " ", "seg1.ts", " ", "\r", "\n",
    "#", "EXTINF:10,", "\n", "http:", "//", "cdn.example", "/", "seg2.ts", "\n">>

BodyNoRefs == <<"#", "EXTM3U", "\n", "#", "EXT-X-ENDLIST">>

(* A second reference that new URL() rejects.                             *)
BodyBadRef == <<"#", "EXTM3U", "\n", "/", "seg3.ts", "\n", "http:", "//">>

BodyNotPlaylist == <<" ", "#", "EXTM3U", "\n", "seg1.ts">>

(* A playlist with a single reference.                                    *)
BodyOneRef == <<"#", "EXTM3U", "\n", "seg4.ts">>

Bodies == {BodyTwoRefs, BodyNoRefs, BodyBadRef, BodyNotPlaylist}

(* The stream of identifiers uuidv4() returns (hex digits and hyphens):   *)
(* each call returns the next one, so no identifier is returned twice.    *)
UuidStream == <<<<"4", "f", "2">>, <<"a", "-", "7">>, <<"9", "f", "a">>>>

UuidPool == {UuidStream[i] : i \in 1..Len(UuidStream)}

(* Variant: a generator that returns the same identifier again.           *)
uuidv4Repeats(used) == UuidStream[1]

uuidv4(used) == UuidStream[Cardinality(used) + 1]

UpstreamTypes == {"", "video/mp2t"}
UpstreamBytes == {<<"bytes">>}

Environments == {[SECRET_KEY |-> <<>>, NODE_ENV |-> "development"]}

(* ---------------------------------------------------------------------- *)
(* State                                                                   *)
(* ---------------------------------------------------------------------- *)
VARIABLES
  now,        \* Date.now(), milliseconds
  env,        \* process.env
  cache,      \* node-cache data: key -> [v: value, t: expiry stamp in ms]
  usedIds,    \* identifiers uuidv4() has returned
  inflight,   \* handlers suspended at "await axios.get(...)"
  rw,         \* the manifest handler running lines.map(...), or NoRewrite
  emitted,    \* signed local URLs sent to clients in rewritten manifests
  puts,       \* history of cache.set calls: key, value, time, request
  last,       \* the most recent handler step and the response it produced
  nreq,       \* requests received
  smallTicks,
  bigTicks

vars == <<now, env, cache, usedIds, inflight, rw, emitted, puts, last, nreq,
          smallTicks, bigTicks>>

NoRewrite == [active |-> FALSE]

EmptyCache == [x \in {} |-> [v |-> <<>>, t |-> 0]]

(* What a handler got from its "await axios.get(url, ..)", if it made one. *)
NoFetch == [made |-> FALSE, ok |-> FALSE, url |-> <<>>, referer |-> <<>>,
            type |-> "", body |-> <<>>]

FetchOk(f, type, body) ==
  [made |-> TRUE, ok |-> TRUE, url |-> f.url, referer |-> f.referer,
   type |-> type, body |-> body]

FetchFailed(f) ==
  [made |-> TRUE, ok |-> FALSE, url |-> f.url, referer |-> f.referer,
   type |-> "", body |-> <<>>]

NoEvent == [ep |-> "none", step |-> "none", status |-> 0]

JsonError(msg) == <<"{\"error\":", msg, "}">>

(* A handler step and the response it sent: res.status(s).json(..),       *)
(* res.type(..).send(..) or res.setHeader('Content-Type', ..); res.send.  *)
(* status 0: nothing sent yet, the handler is suspended or still running. *)
Response(ep, step, n, req, fetch, status, type, body) ==
  [ep |-> ep, step |-> step, n |-> n, req |-> req, at |-> now, fetch |-> fetch,
   status |-> status, type |-> type, body |-> body]

Init ==
  /\ now \in StartTimes
  /\ env \in Environments
  /\ cache = EmptyCache
  /\ usedIds = {}
  /\ inflight = {}
  /\ rw = NoRewrite
  /\ emitted = {}
  /\ puts = {}
  /\ last = NoEvent
  /\ nreq = 0
  /\ smallTicks = 0
  /\ bigTicks = 0

Idle == ~rw.active

(* ---------------------------------------------------------------------- *)
(* Time                                                                   *)
(* ---------------------------------------------------------------------- *)
(* The clock advances at any point.  Inside the synchronous lines.map(..) *)
(* only a short step fits, and it is taken between cache.set and          *)
(* generateSignedUrl, where it separates the two time stamps of a line.   *)
(* The long step is taken once something is stored: before that, only the *)
(* position of the clock within its second makes a difference.            *)
TickSmall ==
  /\ (rw.active => rw.pending # <<>>)
  /\ smallTicks < MaxSmallTicks
  /\ \E d \in SmallStep : now' = now + d
  /\ smallTicks' = smallTicks + 1
  /\ UNCHANGED <<env, cache, usedIds, inflight, rw, emitted, puts, last, nreq, bigTicks>>

TickBig ==
  /\ Idle
  /\ puts # {}
  /\ bigTicks < MaxBigTicks
  /\ \E d \in BigStep : now' = now + d
  /\ bigTicks' = bigTicks + 1
  /\ UNCHANGED <<env, cache, usedIds, inflight, rw, emitted, puts, last, nreq, smallTicks>>

(* ---------------------------------------------------------------------- *)
(* GET /fetch/  (manifest endpoint)                                        *)
(* ---------------------------------------------------------------------- *)
Headers(ref) == IF ref # <<>> THEN ref ELSE <<>>

ManifestRequest(url, ref) ==
  /\ Idle
  /\ nreq < MaxRequests
  /\ nreq' = nreq + 1
  /\ LET req == [url |-> url, ref |-> ref]
     IN  IF url = <<>>
         THEN /\ last' = Response("manifest", "reject", nreq + 1, req, NoFetch, 400,
                                  "application/json", JsonError("No URL provided"))
              /\ inflight' = inflight
         ELSE /\ inflight' = inflight \cup
                   {[ep |-> "manifest", n |-> nreq + 1, req |-> req,
                     fetch |-> [url |-> url, referer |-> Headers(ref)]]}
              /\ last' = Response("manifest", "await", nreq + 1, req, NoFetch, 0, "", <<>>)
  /\ UNCHANGED <<now, env, cache, usedIds, rw, emitted, puts, smallTicks, bigTicks>>

ManifestFetchFail(r) ==
  /\ Idle
  /\ r \in inflight
  /\ r.ep = "manifest"
  /\ inflight' = inflight \ {r}
  /\ last' = Response("manifest", "catch", r.n, r.req, FetchFailed(r.fetch), 500,
                      "application/json", JsonError("Failed to fetch M3U8 content"))
  /\ UNCHANGED <<now, env, cache, usedIds, rw, emitted, puts, nreq, smallTicks, bigTicks>>

(* Variant: '#' is looked for in the line as received, not trimmed.       *)
IsReferenceHashUntrimmed(line) ==
  ~(Trim(line) = <<>> \/ (line # <<>> /\ Head(line) = "#"))

IsReference(line) ==
  LET trimmed == Trim(line)
  IN  ~(trimmed = <<>> \/ StartsWith(trimmed, <<"#">>))

ReferenceCount(lines) == Cardinality({i \in 1..Len(lines) : IsReference(lines[i])})

(* The fetch resolved: either the raw body goes back as text/plain, or    *)
(* the handler enters lines.map(...).                                     *)
ManifestFetchOk(r, body) ==
  /\ Idle
  /\ r \in inflight
  /\ r.ep = "manifest"
  /\ IsAbsoluteUrl(r.req.url)
  /\ inflight' = inflight \ {r}
  /\ IF ~StartsWith(body, EXTM3U)
     THEN /\ last' = Response("manifest", "raw", r.n, r.req, FetchOk(r.fetch, "", body),
                              200, "text/plain", body)
          /\ rw' = rw
     ELSE /\ ReferenceCount(Split(body, "\n")) <= Cardinality(UuidPool \ usedIds)
          /\ rw' = [active |-> TRUE, n |-> r.n, req |-> r.req,
                    fetch |-> FetchOk(r.fetch, "", body),
                    lines |-> Split(body, "\n"), out |-> <<>>,
                    pending |-> <<>>, minted |-> {}]
          /\ last' = Response("manifest", "map", r.n, r.req, FetchOk(r.fetch, "", body),
                              0, "", <<>>)
  /\ UNCHANGED <<now, env, cache, usedIds, emitted, puts, nreq, smallTicks, bigTicks>>

(* One iteration of lines.map up to and including cache.set.              *)
RewriteLine ==
  /\ rw.active
  /\ rw.pending = <<>>
  /\ Len(rw.out) < Len(rw.lines)
  /\ LET line    == rw.lines[Len(rw.out) + 1]
         trimmed == Trim(line)
     IN  IF ~IsReference(line)
         THEN /\ rw' = [rw EXCEPT !.out = Append(@, line)]
              /\ UNCHANGED <<cache, usedIds, puts, last>>
         ELSE LET resourceId  == uuidv4(usedIds)
                  absoluteUrl == ResolveUrl(trimmed, rw.req.url)
              IN    /\ usedIds' = usedIds \cup {resourceId}
                    /\ IF absoluteUrl = InvalidUrl
                       THEN /\ rw' = NoRewrite
                            /\ last' = Response("manifest", "catch", rw.n, rw.req, rw.fetch,
                                                500, "application/json",
                                                JsonError("Failed to fetch M3U8 content"))
                            /\ UNCHANGED <<cache, puts>>
                       ELSE /\ cache' = CacheSet(cache, resourceId, absoluteUrl, now)
                            /\ puts' = puts \cup
                                 {[k |-> resourceId, v |-> absoluteUrl, at |-> now, n |-> rw.n]}
                            /\ rw' = [rw EXCEPT !.pending = resourceId]
                            /\ last' = last
  /\ UNCHANGED <<now, env, inflight, emitted, nreq, smallTicks, bigTicks>>

(* The rest of the iteration: generateSignedUrl and the returned line.    *)
RewriteSign ==
  /\ rw.active
  /\ rw.pending # <<>>
  /\ LET signedUrl == generateSignedUrl(rw.pending, SegmentType, now, SECRET_KEY(env))
     IN  rw' = [rw EXCEPT !.out = Append(@, signedUrl),
                          !.pending = <<>>,
                          !.minted = @ \cup {signedUrl}]
  /\ UNCHANGED <<now, env, cache, usedIds, inflight, emitted, puts, last, nreq,
                 smallTicks, bigTicks>>

(* transformed.join('\n'), the content type and res.send.                 *)
RewriteSend ==
  /\ rw.active
  /\ rw.pending = <<>>
  /\ Len(rw.out) = Len(rw.lines)
  /\ last' = Response("manifest", "rewritten", rw.n, rw.req, rw.fetch, 200,
                      "application/vnd.apple.mpegurl", Join(rw.out, "\n"))
  /\ emitted' = emitted \cup rw.minted
  /\ rw' = NoRewrite
  /\ UNCHANGED <<now, env, cache, usedIds, inflight, puts, nreq, smallTicks, bigTicks>>

(* ---------------------------------------------------------------------- *)
(* What a client can put in the query of GET /fetch/segment/resource       *)
(* ---------------------------------------------------------------------- *)
TamperAt(s) == {Len(s) - 1}

Tamper(s, i) == [s EXCEPT ![i] = IF @ = "0" THEN "1" ELSE "0"]

(* The same characters resourceId + exp, cut at another place.            *)
Resplits(q) ==
  LET m == q.resourceId \o q.exp
      n == Len(q.resourceId)
  IN  {[resourceId |-> SubSeq(m, 1, i), sig |-> q.sig, exp |-> SubSeq(m, i + 1, Len(m))] :
         i \in {n - 2, n - 1, n + 1}}

OtherExps(q) ==
  {q.exp \o <<"x">>, DecStr(ParseInt(q.exp).val + TokenWindow)}

Forgeries(q) ==
  {[q EXCEPT !.sig = Tamper(q.sig, i)] : i \in TamperAt(q.sig)}
    \cup Resplits(q)
    \cup {[q EXCEPT !.exp = e] : e \in OtherExps(q)}
    \cup {[q EXCEPT !.resourceId = UuidStream[Len(UuidStream)]]}

Guesses ==
  LET g == [resourceId |-> <<"9", "f", "a">>, sig |-> <<"0">>, exp |-> DecStr(ExpOf(now))]
  IN  {g, [g EXCEPT !.resourceId = <<>>], [g EXCEPT !.sig = <<>>], [g EXCEPT !.exp = <<>>]}

Presentable ==
  Guesses \cup {QueryOf(u) : u \in emitted}
          \cup UNION {Forgeries(QueryOf(u)) : u \in emitted}

(* ---------------------------------------------------------------------- *)
(* GET /fetch/segment/resource                                             *)
(* ---------------------------------------------------------------------- *)
(* Variants of the handler with one plausible slip each: the store is     *)
(* looked up before the token is verified; an expired token gets a        *)
(* message of its own; the token is not verified at all.                  *)
SegmentRequestSlip(q, slip) ==
  /\ Idle
  /\ nreq < MaxRequests
  /\ nreq' = nreq + 1
  /\ LET realUrl == CacheGet(cache, q.resourceId, now)
         valid   == \/ slip = "noVerify"
                    \/ verifySignedUrl(q.resourceId, q.sig, q.exp, SegmentType, now,
                                       SECRET_KEY(env))
         expired == NumLess(ParseInt(q.exp), now \div 1000)
         Refuse(step, status, msg) ==
           /\ last' = Response("segment", step, nreq + 1, q, NoFetch, status,
                               "application/json", JsonError(msg))
           /\ inflight' = inflight
     IN  IF q.resourceId = <<>> \/ q.sig = <<>> \/ q.exp = <<>>
         THEN /\ Refuse("missing", 400, "Missing signed URL params")
              /\ cache' = cache
         ELSE IF slip = "storeFirst" /\ realUrl = Undefined
         THEN /\ Refuse("notfound", 404, "Resource not found or expired")
              /\ cache' = CacheAfterGet(cache, q.resourceId, now)
         ELSE IF ~valid
         THEN /\ Refuse("invalid", 400,
                        IF slip = "tellsExpiry" /\ expired
                        THEN "Signed URL expired"
                        ELSE "Invalid or expired signed URL")
              /\ cache' = cache
         ELSE IF realUrl = Undefined
         THEN /\ Refuse("notfound", 404, "Resource not found or expired")
              /\ cache' = CacheAfterGet(cache, q.resourceId, now)
         ELSE /\ cache' = cache
              /\ inflight' = inflight \cup
                   {[ep |-> "segment", n |-> nreq + 1, req |-> q,
                     fetch |-> [url |-> realUrl, referer |-> <<>>]]}
              /\ last' = Response("segment", "await", nreq + 1, q, NoFetch, 0, "", <<>>)
  /\ UNCHANGED <<now, env, usedIds, rw, emitted, puts, smallTicks, bigTicks>>

SegmentRequestStoreFirst(q) == SegmentRequestSlip(q, "storeFirst")

SegmentRequestTellsExpiry(q) == SegmentRequestSlip(q, "tellsExpiry")

SegmentRequestNoVerify(q) == SegmentRequestSlip(q, "noVerify")

SegmentRequest(q) ==
  /\ Idle
  /\ nreq < MaxRequests
  /\ nreq' = nreq + 1
  /\ IF q.resourceId = <<>> \/ q.sig = <<>> \/ q.exp = <<>>
     THEN /\ last' = Response("segment", "missing", nreq + 1, q, NoFetch, 400,
                              "application/json", JsonError("Missing signed URL params"))
          /\ UNCHANGED <<cache, inflight>>
     ELSE IF ~verifySignedUrl(q.resourceId, q.sig, q.exp, SegmentType, now, SECRET_KEY(env))
     THEN /\ last' = Response("segment", "invalid", nreq + 1, q, NoFetch, 400,
                              "application/json", JsonError("Invalid or expired signed URL"))
          /\ UNCHANGED <<cache, inflight>>
     ELSE LET realUrl == CacheGet(cache, q.resourceId, now)
          IN  /\ cache' = CacheAfterGet(cache, q.resourceId, now)
              /\ IF realUrl = Undefined
                 THEN /\ last' = Response("segment", "notfound", nreq + 1, q, NoFetch, 404,
                                          "application/json",
                                          JsonError("Resource not found or expired"))
                      /\ inflight' = inflight
                 ELSE /\ inflight' = inflight \cup
                           {[ep |-> "segment", n |-> nreq + 1, req |-> q,
                             fetch |-> [url |-> realUrl, referer |-> <<>>]]}
                      /\ last' = Response("segment", "await", nreq + 1, q, NoFetch, 0, "", <<>>)
  /\ UNCHANGED <<now, env, usedIds, rw, emitted, puts, smallTicks, bigTicks>>

(* contentType = headers['content-type'], or the default if there is none *)
ContentTypeAsIs(type) == type

ContentTypeOrDefault(type) ==
  IF type = "" THEN "application/octet-stream" ELSE type

SegmentFetchOk(r, type, bytes) ==
  /\ Idle
  /\ r \in inflight
  /\ r.ep = "segment"
  /\ inflight' = inflight \ {r}
  /\ LET contentType == ContentTypeOrDefault(type)
     IN  last' = Response("segment", "served", r.n, r.req, FetchOk(r.fetch, type, bytes),
                          200, contentType, bytes)
  /\ UNCHANGED <<now, env, cache, usedIds, rw, emitted, puts, nreq, smallTicks, bigTicks>>

(* Variant: the rejected fetch is issued again instead of being answered. *)
SegmentFetchFailRetries(r) ==
  /\ Idle
  /\ r \in inflight
  /\ r.ep = "segment"
  /\ inflight' = inflight
  /\ last' = Response("segment", "retry", r.n, r.req, FetchFailed(r.fetch), 0, "", <<>>)
  /\ UNCHANGED <<now, env, cache, usedIds, rw, emitted, puts, nreq, smallTicks, bigTicks>>

SegmentFetchFail(r) ==
  /\ Idle
  /\ r \in inflight
  /\ r.ep = "segment"
  /\ inflight' = inflight \ {r}
  /\ last' = Response("segment", "catch", r.n, r.req, FetchFailed(r.fetch), 500,
                      "application/json", JsonError("Error fetching segment content"))
  /\ UNCHANGED <<now, env, cache, usedIds, rw, emitted, puts, nreq, smallTicks, bigTicks>>

(* ---------------------------------------------------------------------- *)
(* GET /fetch/image                                                        *)
(* ---------------------------------------------------------------------- *)
ImageRequest(url, ref) ==
  /\ Idle
  /\ nreq < MaxRequests
  /\ nreq' = nreq + 1
  /\ LET req == [url |-> url, ref |-> ref]
     IN  IF url = <<>>
         THEN /\ last' = Response("image", "reject", nreq + 1, req, NoFetch, 400,
                                  "application/json", JsonError("No URL provided"))
              /\ inflight' = inflight
         ELSE /\ inflight' = inflight \cup
                   {[ep |-> "image", n |-> nreq + 1, req |-> req,
                     fetch |-> [url |-> url, referer |-> Headers(ref)]]}
              /\ last' = Response("image", "await", nreq + 1, req, NoFetch, 0, "", <<>>)
  /\ UNCHANGED <<now, env, cache, usedIds, rw, emitted, puts, smallTicks, bigTicks>>

(* res.setHeader('Content-Type', undefined) throws inside the try block.  *)
ImageFetchOk(r, type, bytes) ==
  /\ Idle
  /\ r \in inflight
  /\ r.ep = "image"
  /\ IsAbsoluteUrl(r.req.url)
  /\ inflight' = inflight \ {r}
  /\ IF type = ""
     THEN last' = Response("image", "catch", r.n, r.req, FetchOk(r.fetch, type, bytes), 500,
                           "application/json", JsonError("Error fetching image content"))
     ELSE last' = Response("image", "served", r.n, r.req, FetchOk(r.fetch, type, bytes),
                           200, type, bytes)
  /\ UNCHANGED <<now, env, cache, usedIds, rw, emitted, puts, nreq, smallTicks, bigTicks>>

ImageFetchFail(r) ==
  /\ Idle
  /\ r \in inflight
  /\ r.ep = "image"
  /\ inflight' = inflight \ {r}
  /\ last' = Response("image", "catch", r.n, r.req, FetchFailed(r.fetch), 500,
                      "application/json", JsonError("Error fetching image content"))
  /\ UNCHANGED <<now, env, cache, usedIds, rw, emitted, puts, nreq, smallTicks, bigTicks>>

(* ---------------------------------------------------------------------- *)
(* Specification                                                           *)
(* ---------------------------------------------------------------------- *)
Next ==
  \/ TickSmall
  \/ TickBig
  \/ \E m \in ManifestQueries : ManifestRequest(m.url, m.ref)
  \/ \E r \in inflight : ManifestFetchFail(r)
  \/ \E r \in inflight, body \in Bodies : ManifestFetchOk(r, body)
  \/ RewriteLine
  \/ RewriteSign
  \/ RewriteSend
  \/ \E q \in Presentable : SegmentRequest(q)
  \/ \E r \in inflight, type \in UpstreamTypes, bytes \in UpstreamBytes :
       SegmentFetchOk(r, type, bytes)
  \/ \E r \in inflight : SegmentFetchFail(r)
  \/ \E m \in ImageQueries : ImageRequest(m.url, m.ref)
  \/ \E r \in inflight, type \in UpstreamTypes, bytes \in UpstreamBytes :
       ImageFetchOk(r, type, bytes)
  \/ \E r \in inflight : ImageFetchFail(r)

Spec == Init /\ [][Next]_vars

(* The store under concurrent writers and readers: manifest requests      *)
(* whose playlists each put at least one entry, and segment requests for  *)
(* the URLs the server issued.                                            *)
StoreBodies == {BodyOneRef, BodyBadRef}

NextStore ==
  \/ TickSmall
  \/ TickBig
  \/ ManifestRequest(ManifestUrl, RefererValue)
  \/ \E r \in inflight : ManifestFetchFail(r)
  \/ \E r \in inflight, body \in StoreBodies : ManifestFetchOk(r, body)
  \/ RewriteLine
  \/ RewriteSign
  \/ RewriteSend
  \/ \E u \in emitted : SegmentRequest(QueryOf(u))
  \/ \E r \in inflight, type \in UpstreamTypes, bytes \in UpstreamBytes :
       SegmentFetchOk(r, type, bytes)
  \/ \E r \in inflight : SegmentFetchFail(r)

SpecStore == Init /\ [][NextStore]_vars

(* The server started in any deployment: the variable SECRET_KEY absent   *)
(* or set, NODE_ENV development or production.                            *)
Deployments ==
  {[SECRET_KEY |-> <<>>, NODE_ENV |-> "development"],
   [SECRET_KEY |-> <<>>, NODE_ENV |-> "production"],
   [SECRET_KEY |-> <<"s3cret">>, NODE_ENV |-> "production"]}

InitDeployed ==
  /\ now \in StartTimes
  /\ env \in Deployments
  /\ cache = EmptyCache
  /\ usedIds = {}
  /\ inflight = {}
  /\ rw = NoRewrite
  /\ emitted = {}
  /\ puts = {}
  /\ last = NoEvent
  /\ nreq = 0
  /\ smallTicks = 0
  /\ bigTicks = 0

SpecDeployed == InitDeployed /\ [][Next]_vars

(* ---------------------------------------------------------------------- *)
(* Vocabulary of the properties                                            *)
(* ---------------------------------------------------------------------- *)
Key == SECRET_KEY(env)

Issued == {QueryOf(u) : u \in emitted}

(* The last step is the synchronous part of a segment request that        *)
(* carried all three parameters.                                          *)
SegmentChecked ==
  /\ last.ep = "segment"
  /\ last.step \in {"invalid", "notfound", "await"}

(* ... and verifySignedUrl returned true for it.                          *)
SegmentAccepted ==
  /\ last.ep = "segment"
  /\ last.step \in {"notfound", "await"}

IsDecimal(s) == s # <<>> /\ \A i \in 1..Len(s) : IsDigit(s[i])

RECURSIVE DecimalValue(_)
DecimalValue(s) ==
  IF s = <<>> THEN 0
  ELSE DecimalValue(SubSeq(s, 1, Len(s) - 1)) * 10
         + (CHOOSE d \in 0..9 : DecStr(d) = <<s[Len(s)]>>)

Seconds(ms) == ms \div 1000

(* The handler of request n is suspended in an upstream fetch.            *)
Fetching(n) == \E r \in inflight : r.n = n

(* ---------------------------------------------------------------------- *)
(* C1  Tamper detection.  A presented (resourceId, sig, exp) that is not  *)
(* exactly a triple the server issued - another signature, or another     *)
(* (resourceId, exp) pair - is refused by verifySignedUrl.                *)
(* Fails: the signed message is the bare concatenation resourceId+exp, so *)
(* the same characters cut at another place verify with the same sig.     *)
(* ---------------------------------------------------------------------- *)
C1_TamperDetection ==
  SegmentAccepted => last.req \in Issued

(* ---------------------------------------------------------------------- *)
(* C2  Round trip.  The fields of every signed URL the server emitted are *)
(* accepted by verifySignedUrl at every later time whose second is not    *)
(* past the token's exp, and a request carrying them is not refused as    *)
(* invalid.                                                               *)
(* ---------------------------------------------------------------------- *)
C2_RoundTrip ==
  /\ \A q \in Issued :
       Seconds(now) <= DecimalValue(q.exp)
         => verifySignedUrl(q.resourceId, q.sig, q.exp, SegmentType, now, Key)
  /\ (SegmentChecked /\ last.req \in Issued
        /\ Seconds(last.at) <= DecimalValue(last.req.exp))
       => SegmentAccepted

C2_Witness ==
  /\ SegmentAccepted
  /\ last.req \in Issued
  /\ last.at = now
  /\ Seconds(now) = DecimalValue(last.req.exp)

(* ---------------------------------------------------------------------- *)
(* C3  Expiry enforcement.  A request whose exp, as an integer, is less   *)
(* than the current second is answered 400 also when its signature is the *)
(* right one for (resourceId, exp), and that request neither touches the  *)
(* store nor starts an upstream fetch.                                    *)
(* ---------------------------------------------------------------------- *)
ExpiredRequest(ev) ==
  /\ ev.ep = "segment"
  /\ ev.step \in {"invalid", "notfound", "await"}
  /\ \/ IsDecimal(ev.req.exp) /\ DecimalValue(ev.req.exp) < Seconds(ev.at)
     \/ ~ParseInt(ev.req.exp).nan /\ ParseInt(ev.req.exp).val < Seconds(ev.at)

C3_ExpiryEnforced ==
  /\ [](ExpiredRequest(last)
          => /\ last.step = "invalid"
             /\ last.status = 400
             /\ ~last.fetch.made
             /\ ~Fetching(last.n))
  /\ [][(last' # last /\ ExpiredRequest(last'))
          => (cache' = cache /\ inflight' = inflight)]_vars

C3_Witness ==
  /\ ExpiredRequest(last)
  /\ last.req \in Issued
  /\ last.req.sig = Signature(last.req.resourceId, last.req.exp, SegmentType, Key)
  /\ last.status = 400

(* ---------------------------------------------------------------------- *)
(* C4  Validity as an equivalence.  As claimed: for a decimal exp,        *)
(* verifySignedUrl returns true iff exp > now (in seconds) and sig is the *)
(* signature recomputed from (resourceId, exp, 'segment').                *)
(* ---------------------------------------------------------------------- *)
C4_ValidIffStrictlyFuture ==
  (SegmentChecked /\ IsDecimal(last.req.exp))
    => (SegmentAccepted <=>
          /\ DecimalValue(last.req.exp) > Seconds(last.at)
          /\ last.req.sig =
               Signature(last.req.resourceId, last.req.exp, SegmentType, Key))

(* C4 as amended: ... iff exp >= now and the signature matches; a token   *)
(* whose exp equals the current second is still valid.                    *)
C4_ValidIffNotPast ==
  (SegmentChecked /\ IsDecimal(last.req.exp))
    => (SegmentAccepted <=>
          /\ DecimalValue(last.req.exp) >= Seconds(last.at)
          /\ last.req.sig =
               Signature(last.req.resourceId, last.req.exp, SegmentType, Key))

C4_Witness ==
  /\ SegmentAccepted
  /\ IsDecimal(last.req.exp)
  /\ DecimalValue(last.req.exp) = Seconds(last.at)

(* ---------------------------------------------------------------------- *)
(* C5  Malformed expiry.  A segment request whose exp is not a decimal    *)
(* integer is refused by verifySignedUrl and answered 400.                *)
(* Fails: parseInt gives NaN, NaN < now is false, and the signature of an *)
(* issued token matches when exp is the tail of resourceId + exp.         *)
(* ---------------------------------------------------------------------- *)
IsDecimalInteger(s) ==
  \/ IsDecimal(s)
  \/ (s # <<>> /\ Head(s) \in {"-", "+"} /\ IsDecimal(Tail(s)))

C5_MalformedExpRefused ==
  (SegmentChecked /\ ~IsDecimalInteger(last.req.exp))
    => (last.step = "invalid" /\ last.status = 400)

(* ---------------------------------------------------------------------- *)
(* C6  Shape of a rewritten manifest.  The output has as many lines as    *)
(* the input; pass-through lines are unchanged in place; every other line *)
(* is a signed local URL whose resourceId the store maps, when the        *)
(* response is sent, to the reference resolved against the fetch URL; an  *)
(* input without reference lines comes back identical and the request     *)
(* puts nothing into the store.                                           *)
(* ---------------------------------------------------------------------- *)
(* As claimed: a line passes through if it is blank, white space only, or *)
(* starts with '#'.                                                       *)
LiteralDirective(line) ==
  \/ line = <<>>
  \/ \A i \in 1..Len(line) : line[i] \in WhiteSpace
  \/ Head(line) = "#"

(* As amended: the line is classified after trimming white space at both *)
(* ends, so an indented '#' line passes through as well.                  *)
TrimmedDirective(line) ==
  \/ \A i \in 1..Len(line) : line[i] \in WhiteSpace
  \/ \E i \in 1..Len(line) :
       line[i] = "#" /\ \A k \in 1..(i - 1) : line[k] \in WhiteSpace

RewriteShape(Directive(_)) ==
  (last.ep = "manifest" /\ last.step = "rewritten" /\ last.at = now)
    => LET input  == Split(last.fetch.body, "\n")
           output == Split(last.body, "\n")
       IN  /\ last.status = 200
           /\ Len(output) = Len(input)
           /\ \A i \in 1..Len(input) :
                IF Directive(input[i])
                THEN output[i] = input[i]
                ELSE /\ IsSignedUrl(output[i])
                     /\ output[i] \in emitted
                     /\ CacheGet(cache, QueryOf(output[i]).resourceId, now)
                          = ResolveUrl(Trim(input[i]), last.req.url)
           /\ (\A i \in 1..Len(input) : Directive(input[i]))
                => /\ last.body = last.fetch.body
                   /\ ~\E p \in puts : p.n = last.n

NotPlaylist(body) ==
  ~(Len(body) >= 2 /\ body[1] = "#" /\ body[2] = "EXTM3U")

C7_PassThrough ==
  /\ []((last.ep = "manifest" /\ last.fetch.ok /\ NotPlaylist(last.fetch.body))
          => /\ last.step = "raw"
             /\ last.status = 200
             /\ last.type = "text/plain"
             /\ last.body = last.fetch.body
             /\ ~\E p \in puts : p.n = last.n)
  /\ [][(last' # last /\ last'.ep = "manifest" /\ last'.fetch.ok
           /\ NotPlaylist(last'.fetch.body))
          => (cache' = cache /\ puts' = puts /\ emitted' = emitted
                /\ usedIds' = usedIds /\ ~rw'.active)]_vars

C7_Witness ==
  /\ last.ep = "manifest"
  /\ last.step = "raw"
  /\ last.body = BodyNotPlaylist
  /\ last.body # <<>>

(* ---------------------------------------------------------------------- *)
(* C8  Resolution round trip.  A segment request carrying exactly the     *)
(* fields of an emitted signed URL, made no later than the token's exp    *)
(* and within the TTL of the store entry, fetches the remote URL stored   *)
(* for that line, whatever else is in flight; when the fetch succeeds the *)
(* answer is 200 with the fetched bytes and the upstream content type, or *)
(* application/octet-stream if upstream gave none.                        *)
(* ---------------------------------------------------------------------- *)
StoredFor(resourceId, url) ==
  /\ \E p \in puts : p.k = resourceId
  /\ \A p \in puts : p.k = resourceId => p.v = url

NoLiveEntry(resourceId, atMs) ==
  ~\E p \in puts : p.k = resourceId /\ atMs <= p.at + stdTTL * 1000

C9_MissingIs404 ==
  (/\ SegmentChecked
   /\ verifySignedUrl(last.req.resourceId, last.req.sig, last.req.exp, SegmentType,
                      last.at, Key)
   /\ NoLiveEntry(last.req.resourceId, last.at))
    => /\ last.step = "notfound"
       /\ last.status = 404
       /\ ~last.fetch.made
       /\ ~Fetching(last.n)

C9_Witness ==
  /\ last.ep = "segment"
  /\ last.step = "notfound"
  /\ last.status = 404
  /\ last.req \in Issued
  /\ \E p \in puts : p.k = last.req.resourceId

(* ---------------------------------------------------------------------- *)
(* C10  Store TTL.  An entry put at time T is returned by get at every    *)
(* time before T + 600 s and is absent at every time after T + 600 s,     *)
(* however many lookups were made in between.                             *)
(* ---------------------------------------------------------------------- *)
C10_StoreTTL ==
  \A p \in puts :
    /\ now < p.at + stdTTL * 1000 => CacheGet(cache, p.k, now) = p.v
    /\ now > p.at + stdTTL * 1000 => CacheGet(cache, p.k, now) = Undefined

C10_Witness ==
  \E p \in puts :
    /\ last.ep = "segment"
    /\ last.step = "served"
    /\ last.req.resourceId = p.k
    /\ p.at < now
    /\ now < p.at + stdTTL * 1000
    /\ CacheGet(cache, p.k, now) = p.v

(* ---------------------------------------------------------------------- *)
(* C11  Outcome precedence of the segment endpoint.  The synchronous part *)
(* of every request decides, in this order: a missing or empty parameter  *)
(* gives 400; otherwise a token that does not verify gives 400; otherwise *)
(* a resourceId without a live store entry gives 404; otherwise one fetch *)
(* is started, and its failure gives 500 and its success 200.  A request  *)
(* refused by one check is not taken through the later ones: the store is *)
(* not looked up and nothing is fetched.                                  *)
(* ---------------------------------------------------------------------- *)
MissingParam(q) == q.resourceId = <<>> \/ q.sig = <<>> \/ q.exp = <<>>

SegmentDecided ==
  /\ last.ep = "segment"
  /\ last.step \in {"missing", "invalid", "notfound", "await"}

Verifies(ev) ==
  verifySignedUrl(ev.req.resourceId, ev.req.sig, ev.req.exp, SegmentType, ev.at, Key)

RefusedEarly(ev) ==
  /\ ev.ep = "segment"
  /\ ev.step \in {"missing", "invalid", "notfound", "await"}
  /\ (MissingParam(ev.req) \/ ~Verifies(ev))

C11_OutcomePrecedence ==
  /\ [](SegmentDecided =>
          /\ MissingParam(last.req)
               => (last.step = "missing" /\ last.status = 400)
          /\ (~MissingParam(last.req) /\ ~Verifies(last))
               => (last.step = "invalid" /\ last.status = 400)
          /\ (~MissingParam(last.req) /\ Verifies(last)
                 /\ NoLiveEntry(last.req.resourceId, last.at))
               => (last.step = "notfound" /\ last.status = 404)
          /\ (~MissingParam(last.req) /\ Verifies(last)
                 /\ ~NoLiveEntry(last.req.resourceId, last.at))
               => (last.step = "await" /\ last.status = 0 /\ Fetching(last.n))
          /\ last.status # 0 => (~last.fetch.made /\ ~Fetching(last.n)))
  /\ []((last.ep = "segment" /\ last.step \in {"served", "catch"})
          => /\ last.fetch.made
             /\ ~Fetching(last.n)
             /\ ~MissingParam(last.req)
             /\ last.status = (IF last.fetch.ok THEN 200 ELSE 500))
  /\ [][(last' # last /\ RefusedEarly(last'))
          => (cache' = cache /\ inflight' = inflight)]_vars

(* A request that fails two checks at once - its token has expired and so *)
(* has its store entry - is answered by the earlier check, and the        *)
(* expired entry, which a lookup would have deleted, is still in place.   *)
C11_Witness ==
  /\ last.ep = "segment"
  /\ last.step = "invalid"
  /\ last.status = 400
  /\ ~MissingParam(last.req)
  /\ NoLiveEntry(last.req.resourceId, last.at)
  /\ last.req.resourceId \in DOMAIN cache

(* ---------------------------------------------------------------------- *)
(* C12  Uniform rejection.  As claimed: a segment request with all three  *)
(* parameters that is refused because its signature does not match, or    *)
(* because its token has expired, or because its resourceId is unknown to *)
(* the store, gets one and the same response (status and body).  Any two  *)
(* refusals are identical exactly when each of them equals the response   *)
(* the handler gives to a signature mismatch.                             *)
(* ---------------------------------------------------------------------- *)
SigMismatch(ev) ==
  ev.req.sig # Signature(ev.req.resourceId, ev.req.exp, SegmentType, Key)

InvalidResponse(ev) ==
  /\ ev.status = 400
  /\ ev.type = "application/json"
  /\ ev.body = JsonError("Invalid or expired signed URL")

C12_UniformRejection ==
  (/\ SegmentChecked
   /\ \/ SigMismatch(last)
      \/ ExpiredRequest(last)
      \/ NoLiveEntry(last.req.resourceId, last.at))
    => InvalidResponse(last)

(* C12 as amended: a signature mismatch and an expired token get the same *)
(* response, 400 with one fixed body; a request whose token verifies and  *)
(* whose resourceId has no live entry gets 404 with another body, so this *)
(* third cause is told apart from the other two.                          *)
C12_UniformInvalid ==
  /\ (SegmentChecked /\ (SigMismatch(last) \/ ExpiredRequest(last)))
       => (InvalidResponse(last) /\ ~last.fetch.made)
  /\ (/\ SegmentChecked
      /\ ~SigMismatch(last)
      /\ ~ExpiredRequest(last)
      /\ NoLiveEntry(last.req.resourceId, last.at))
       => /\ last.status = 404
          /\ last.body = JsonError("Resource not found or expired")

(* A refusal whose only cause is the signature: the token has not expired *)
(* and the entry is live.                                                 *)
C12_Witness ==
  /\ SegmentChecked
  /\ SigMismatch(last)
  /\ ~ExpiredRequest(last)
  /\ ~NoLiveEntry(last.req.resourceId, last.at)
  /\ InvalidResponse(last)

FetchErrorBody(ep) ==
  IF ep = "manifest" THEN JsonError("Failed to fetch M3U8 content")
  ELSE IF ep = "segment" THEN JsonError("Error fetching segment content")
  ELSE JsonError("Error fetching image content")

FetchFailure(ev) == ev.ep # "none" /\ ev.fetch.made /\ ~ev.fetch.ok

C14_NoRetries ==
  /\ [](\A r1, r2 \in inflight : r1.n = r2.n => r1 = r2)
  /\ [](FetchFailure(last)
          => /\ last.status = 500
             /\ last.type = "application/json"
             /\ last.body = FetchErrorBody(last.ep)
             /\ ~Fetching(last.n))
  /\ [][\A r \in inflight' \ inflight : nreq' = nreq + 1 /\ r.n = nreq']_vars
  /\ [][(last' # last /\ FetchFailure(last'))
          => /\ inflight' \subseteq inflight
             /\ Cardinality(inflight') = Cardinality(inflight) - 1
             /\ \E r \in inflight \ inflight' : r.n = last'.n
             /\ cache' = cache
             /\ emitted' = emitted]_vars

C14_Witness ==
  /\ last.ep = "segment"
  /\ last.req \in Issued
  /\ FetchFailure(last)
  /\ last.status = 500
  /\ last.body = JsonError("Error fetching segment content")

(* ---------------------------------------------------------------------- *)
(* C15  Secret fallback.  With SECRET_KEY absent in a production context, *)
(* no token is minted under the built-in default key and no presented     *)
(* token is accepted under it.                                            *)
(* Fails: the key is process.env.SECRET_KEY || 'update-this-secret',      *)
(* whatever the context.                                                  *)
(* ---------------------------------------------------------------------- *)
UnderDefaultKey(q) ==
  q.sig = Signature(q.resourceId, q.exp, SegmentType, DefaultSecret)

Minted == emitted \cup (IF rw.active THEN rw.minted ELSE {})

C15_SecretFallback ==
  (env.SECRET_KEY = <<>> /\ env.NODE_ENV = "production")
    => /\ \A u \in Minted : ~UnderDefaultKey(QueryOf(u))
       /\ ~(SegmentAccepted /\ UnderDefaultKey(last.req))

(* ---------------------------------------------------------------------- *)
(* C16  The token outlives its store entry.  For every signed URL the     *)
(* manifest endpoint emitted, at every time at which the store still      *)
(* returns its resourceId, verifySignedUrl accepts its fields, so the URL *)
(* is never answered 400 (nor 404) while its entry is live.               *)
(* ---------------------------------------------------------------------- *)
OutlivesEntry ==
  /\ \A q \in Issued :
       /\ CacheGet(cache, q.resourceId, now) # Undefined
            => verifySignedUrl(q.resourceId, q.sig, q.exp, SegmentType, now, Key)
       /\ \A p \in puts :
            (p.k = q.resourceId /\ now <= p.at + stdTTL * 1000)
              => /\ Seconds(now) <= DecimalValue(q.exp)
                 /\ q.sig = Signature(q.resourceId, q.exp, SegmentType, Key)
  /\ (/\ SegmentChecked
      /\ last.req \in Issued
      /\ ~NoLiveEntry(last.req.resourceId, last.at))
       => (last.step = "await" /\ Fetching(last.n))

IssuedFailure ==
  /\ last.ep = "segment"
  /\ last.req \in Issued
  /\ last.status \notin {0, 200}

(* As claimed: ... and the only failures an emitted URL can meet are 404  *)
(* after the TTL and 500 on upstream failure.                             *)
C16_OnlyNotFoundOrUpstream ==
  /\ OutlivesEntry
  /\ IssuedFailure
       => \/ last.status = 404 /\ NoLiveEntry(last.req.resourceId, last.at)
          \/ last.status = 500 /\ FetchFailure(last)

(* C16 as amended: ... the failures an emitted URL can meet are 500 on    *)
(* upstream failure and, only after the TTL of its entry, 404 while the   *)
(* current second is not past its exp and 400 from then on.               *)
C16_TokenOutlivesEntry ==
  /\ OutlivesEntry
  /\ IssuedFailure
       => \/ /\ last.status = 404
             /\ NoLiveEntry(last.req.resourceId, last.at)
             /\ Seconds(last.at) <= DecimalValue(last.req.exp)
          \/ last.status = 500 /\ FetchFailure(last)
          \/ /\ last.status = 400
             /\ NoLiveEntry(last.req.resourceId, last.at)
             /\ Seconds(last.at) > DecimalValue(last.req.exp)

(* An emitted URL is requested at the last instant at which its entry is  *)
(* live, 600 s after the put, and is accepted.                            *)
C16_Witness ==
  /\ last.ep = "segment"
  /\ last.step = "await"
  /\ last.req \in Issued
  /\ \E p \in puts : p.k = last.req.resourceId /\ last.at = p.at + stdTTL * 1000

(* ---------------------------------------------------------------------- *)
(* C17  A failed manifest request leaves no trace.  When the manifest     *)
(* endpoint answers 400 or 500, the store holds no entry put by that      *)
(* request; only requests answered with a rewritten manifest add entries. *)
(* Fails: lines.map puts the entry of each reference line as it goes, and *)
(* the catch block does not take them back when a later line throws.      *)
(* ---------------------------------------------------------------------- *)
C17_FailedManifestLeavesNoTrace ==
  (last.ep = "manifest" /\ last.status \in {400, 500})
    => ~\E p \in puts : p.n = last.n /\ p.k \in DOMAIN cache

LiveEntries(c, nowMs) ==
  {<<k, c[k].v>> : k \in {x \in DOMAIN c : c[x].t >= nowMs}}

ResolverStep == last' # last /\ last'.ep \in {"segment", "image"}

C19_ReadOnlyResolution ==
  /\ [][ResolverStep
          => /\ LiveEntries(cache', now') = LiveEntries(cache, now)
             /\ \A k \in DOMAIN cache' : k \in DOMAIN cache /\ cache'[k] = cache[k]
             /\ puts' = puts
             /\ usedIds' = usedIds
             /\ emitted' = emitted
             /\ rw' = rw
             /\ env' = env
             /\ now' = now]_vars
  /\ [][(ResolverStep /\ last'.step \in {"missing", "invalid"})
          => (cache' = cache /\ inflight' = inflight)]_vars
  /\ []((/\ last.ep = "segment"
         /\ last.step \in {"await", "served"}
         /\ ~NoLiveEntry(last.req.resourceId, now))
          => \E p \in puts :
               /\ p.k = last.req.resourceId
               /\ CacheGet(cache, p.k, now) = p.v)

(* An emitted URL was resolved and served some time after the rewrite,    *)
(* and every entry the rewrite put is still returned.                     *)
C19_Witness ==
  /\ last.ep = "segment"
  /\ last.step = "served"
  /\ last.at = now
  /\ puts # {}
  /\ \A p \in puts : p.at < now /\ CacheGet(cache, p.k, now) = p.v
  /\ \E p \in puts : p.k = last.req.resourceId /\ p.v = last.fetch.url

====
